---- MODULE Spec2Model ----
(***************************************************************************)
(* Model of the AVL tree of src/src/tree/avl.rs: the node type, the        *)
(* rotation primitives, the recursive insert/delete engine, the iterative  *)
(* queries, the borrowing and the consuming iterator, and the tree handle. *)
(* A subtree (NodePtr<T> = Option<Box<Node<T>>>) is the value None or a    *)
(* record with the fields of struct Node.  Keys are small integers.        *)
(***************************************************************************)
EXTENDS Integers, Sequences, FiniteSets

\* ---------------------------------------------------------------- bounds
\* keys are drawn from 1..MaxKey
MaxKey == 5
\* longest sequence handed to extend / from
MaxExt == 2
\* calls of Iter::next / IntoIter::next made after the stack ran empty
MaxExtraNext == 2
\* longest sequence of keys a scripted run draws (the scenarios apart)
MaxScript == 3

Keys == 1..MaxKey

RECURSIVE SeqsUpTo(_)
SeqsUpTo(n) ==
    IF n = 0 THEN {<<>>}
    ELSE LET shorter == SeqsUpTo(n - 1)
         IN shorter \cup {Append(s, k) : s \in {t \in shorter : Len(t) = n - 1}, k \in Keys}

ExtendInputs == SeqsUpTo(MaxExt)

Max(a, b) == IF a >= b THEN a ELSE b

\* ------------------------------------------------------------ Node, height
None == [isNone |-> TRUE]

Node_flat(data) == [data |-> data, left |-> None, right |-> None, height |-> 0]

Node_tall(data) == [data |-> data, left |-> None, right |-> None, height |-> 2]

\* Node::new
Node(data) == [data |-> data, left |-> None, right |-> None, height |-> 1]

height(ptr) == IF ptr # None THEN ptr.height ELSE 0

\* Option::unwrap panics on None.  The panic is the node Panic, marked by the
\* field panic, put where the unwrapped node would have been: a subtree
\* holding it is the result of a call that panicked.
Panic == [data |-> 0, left |-> None, right |-> None, height |-> 0, panic |-> TRUE]

unwrap(opt) == IF opt # None THEN opt ELSE Panic

balance_factor_reversed(node) == height(node.right) - height(node.left)

balance_factor(node) == height(node.left) - height(node.right)

update_height_stale(node) == node

update_height_bump(node) == [node EXCEPT !.height = node.height + 1]

update_height(node) ==
    [node EXCEPT !.height = 1 + Max(height(node.left), height(node.right))]

\* ---------------------------------------------------------------- Rotate
left_rotate_swapped(self) ==
    LET x  == self
        y  == x.right
        x1 == [x EXCEPT !.right = y.right]
        y1 == [y EXCEPT !.left = update_height(x1), !.right = y.left]
    IN  update_height(y1)

left_rotate_stale_child(self) ==
    LET x  == unwrap(self)
        y  == unwrap(x.right)
        x1 == [x EXCEPT !.right = y.left]
    IN  update_height([y EXCEPT !.left = x1])

left_rotate(self) ==
    LET x  == unwrap(self)
        y  == unwrap(x.right)
        x1 == [x EXCEPT !.right = y.left]
        y1 == [y EXCEPT !.left = x1]
        y2 == IF y1.left # None
              THEN [y1 EXCEPT !.left = update_height(y1.left)]
              ELSE y1
    IN  update_height(y2)

right_rotate_root_first(self) ==
    LET y  == unwrap(self)
        x  == unwrap(y.left)
        y1 == [y EXCEPT !.left = x.right]
        x1 == update_height([x EXCEPT !.right = y1])
    IN  [x1 EXCEPT !.right = update_height(x1.right)]

right_rotate(self) ==
    LET y  == unwrap(self)
        x  == unwrap(y.left)
        y1 == [y EXCEPT !.left = x.right]
        x1 == [x EXCEPT !.right = y1]
        x2 == IF x1.right # None
              THEN [x1 EXCEPT !.right = update_height(x1.right)]
              ELSE x1
    IN  update_height(x2)

min_value_shallow(self) == self

RECURSIVE min_value(_)
min_value(self) ==
    IF self = None THEN None
    ELSE IF self.left = None THEN self
    ELSE min_value(self.left)

\* ------------------------------------------------------------ insert_rec
\* Result of insert_rec / delete_rec: <<new subtree, flag>>
RECURSIVE insert_rec(_, _)
insert_rec(ptr, data) ==
    IF ptr # None
    THEN IF data # ptr.data
         THEN LET goLeft   == data < ptr.data
                  rec      == IF goLeft THEN insert_rec(ptr.left, data)
                                        ELSE insert_rec(ptr.right, data)
                  inserted == rec[2]
                  node0    == IF goLeft THEN [ptr EXCEPT !.left = rec[1]]
                                        ELSE [ptr EXCEPT !.right = rec[1]]
                  node     == update_height(node0)
                  balance  == balance_factor(node)
              IN  IF balance > 1 /\ node.left # None /\ data < node.left.data
                  THEN <<right_rotate(node), TRUE>>
                  ELSE IF balance > 1 /\ node.left # None /\ data > node.left.data
                  THEN <<right_rotate([node EXCEPT !.left = left_rotate(node.left)]), TRUE>>
                  ELSE IF balance < -1 /\ node.right # None /\ data > node.right.data
                  THEN <<left_rotate(node), TRUE>>
                  ELSE IF balance < -1 /\ node.right # None /\ data < node.right.data
                  THEN <<left_rotate([node EXCEPT !.right = right_rotate(node.right)]), TRUE>>
                  ELSE <<node, inserted>>
         ELSE <<ptr, FALSE>>
    ELSE <<Node(data), TRUE>>

\* ------------------------------------------------------------ delete_rec
\* the rebalancing tail of delete_rec (lines 105-125)
delete_rebalance_eager(node0, deleted) ==
    LET node    == update_height(node0)
        balance == balance_factor(node)
    IN  IF node.left # None /\ balance > 0 /\ balance_factor(node.left) >= 0
        THEN <<right_rotate(node), deleted>>
        ELSE IF node.left # None /\ balance > 0 /\ balance_factor(node.left) < 0
        THEN <<right_rotate([node EXCEPT !.left = left_rotate(node.left)]), deleted>>
        ELSE IF node.right # None /\ balance < 0 /\ balance_factor(node.right) <= 0
        THEN <<left_rotate(node), deleted>>
        ELSE IF node.right # None /\ balance < 0 /\ balance_factor(node.right) > 0
        THEN <<left_rotate([node EXCEPT !.right = right_rotate(node.right)]), deleted>>
        ELSE <<node, deleted>>

delete_rebalance_crossed(node0, deleted) ==
    LET node    == update_height(node0)
        balance == balance_factor(node)
    IN  IF node.left # None /\ balance > 1 /\ balance_factor(node.left) < 0
        THEN <<right_rotate(node), deleted>>
        ELSE IF node.left # None /\ balance > 1 /\ balance_factor(node.left) >= 0
        THEN <<right_rotate([node EXCEPT !.left = left_rotate(node.left)]), deleted>>
        ELSE IF node.right # None /\ balance < -1 /\ balance_factor(node.right) > 0
        THEN <<left_rotate(node), deleted>>
        ELSE IF node.right # None /\ balance < -1 /\ balance_factor(node.right) <= 0
        THEN <<left_rotate([node EXCEPT !.right = right_rotate(node.right)]), deleted>>
        ELSE <<node, deleted>>

delete_rebalance(node0, deleted) ==
    LET node    == update_height(node0)
        balance == balance_factor(node)
    IN  IF node.left # None /\ balance > 1 /\ balance_factor(node.left) >= 0
        THEN <<right_rotate(node), deleted>>
        ELSE IF node.left # None /\ balance > 1 /\ balance_factor(node.left) < 0
        THEN <<right_rotate([node EXCEPT !.left = left_rotate(node.left)]), deleted>>
        ELSE IF node.right # None /\ balance < -1 /\ balance_factor(node.right) <= 0
        THEN <<left_rotate(node), deleted>>
        ELSE IF node.right # None /\ balance < -1 /\ balance_factor(node.right) > 0
        THEN <<left_rotate([node EXCEPT !.right = right_rotate(node.right)]), deleted>>
        ELSE <<node, deleted>>

RECURSIVE delete_rec(_, _)
delete_rec(ptr, data) ==
    IF ptr # None
    THEN IF data < ptr.data
         THEN LET rec == delete_rec(ptr.left, data)
              IN  delete_rebalance([ptr EXCEPT !.left = rec[1]], rec[2])
         ELSE IF data > ptr.data
         THEN LET rec == delete_rec(ptr.right, data)
              IN  delete_rebalance([ptr EXCEPT !.right = rec[1]], rec[2])
         ELSE IF ptr.left = None \/ ptr.right = None
         THEN <<IF ptr.left # None THEN ptr.left ELSE ptr.right, TRUE>>
         ELSE LET tmp   == unwrap(min_value(ptr.right))
                  node1 == [ptr EXCEPT !.data = tmp.data]
                  rec   == delete_rec(node1.right, node1.data)
              IN  delete_rebalance([node1 EXCEPT !.right = rec[1]], TRUE)
    ELSE <<None, FALSE>>

\* ------------------------------------------------- the tree handle, AVLTree
\* Result of a handle operation: the new root, the new size, the return value
new == [root |-> None, size |-> 0]

is_empty(r) == r = None

insert_uncounted(r, sz, data) ==
    LET res == insert_rec(r, data)
    IN  [root |-> res[1], size |-> sz, ret |-> res[2]]

insert_overcounted(r, sz, data) ==
    LET res == insert_rec(r, data)
    IN  [root |-> res[1], size |-> sz + 1, ret |-> res[2]]

insert(r, sz, data) ==
    LET res == insert_rec(r, data)
    IN  [root |-> res[1], size |-> IF res[2] THEN sz + 1 ELSE sz, ret |-> res[2]]

remove_uncounted(r, sz, data) ==
    LET res == delete_rec(r, data)
    IN  [root |-> res[1], size |-> sz, ret |-> res[2]]

remove_overcounted(r, sz, data) ==
    LET res == delete_rec(r, data)
    IN  [root |-> res[1], size |-> sz - 1, ret |-> res[2]]

remove(r, sz, data) ==
    LET res == delete_rec(r, data)
    IN  [root |-> res[1], size |-> IF res[2] THEN sz - 1 ELSE sz, ret |-> res[2]]

RECURSIVE extend(_, _, _)
extend(r, sz, items) ==
    IF items = <<>> THEN [root |-> r, size |-> sz]
    ELSE LET one == insert(r, sz, Head(items))
         IN  extend(one.root, one.size, Tail(items))

from_counted_by_length(items) ==
    [root |-> extend(new.root, new.size, items).root, size |-> Len(items)]

from(items) == extend(new.root, new.size, items)

\* FromIterator for AVLTree
from_iter(items) == from(items)

clear_size_stale == [root |-> None, size |-> 1]

clear == [root |-> None, size |-> 0]

\* Clone for AVLTree
RECURSIVE preorder_copy(_)
preorder_copy(src) ==
    IF src # None
    THEN LET cpy == Node(src.data)
         IN  [cpy EXCEPT !.height = src.height,
                         !.left   = preorder_copy(src.left),
                         !.right  = preorder_copy(src.right)]
    ELSE None

clone_unsized(r, sz) == [root |-> preorder_copy(r), size |-> 0]

clone(r, sz) == [root |-> preorder_copy(r), size |-> sz]

RECURSIVE contains(_, _)
contains(ptr, data) ==
    IF ptr = None THEN FALSE
    ELSE IF data < ptr.data THEN contains(ptr.left, data)
    ELSE IF data > ptr.data THEN contains(ptr.right, data)
    ELSE TRUE

\* get_min .. get_ceil return Option<&T>: 0 stands for Option::None
get_min_root(ptr) == IF ptr = None THEN 0 ELSE ptr.data

RECURSIVE get_min(_)
get_min(ptr) ==
    IF ptr = None THEN 0
    ELSE IF ptr.left = None THEN ptr.data
    ELSE get_min(ptr.left)

RECURSIVE get_max(_)
get_max(ptr) ==
    IF ptr = None THEN 0
    ELSE IF ptr.right = None THEN ptr.data
    ELSE get_max(ptr.right)

\* the loop of get_floor, from the position ptr with the candidate so far
RECURSIVE get_floor_from(_, _, _)
get_floor_from(ptr, floor, candidate) ==
    IF ptr = None THEN candidate
    ELSE IF ptr.data = floor THEN ptr.data
    ELSE IF ptr.data > floor THEN get_floor_from(ptr.left, floor, candidate)
    ELSE get_floor_from(ptr.right, floor, ptr.data)

get_floor_strict(r, floor) == get_floor_from(r, floor - 1, 0)

get_floor(r, floor) == get_floor_from(r, floor, 0)

\* the loop of get_ceil, from the position ptr with the candidate so far
RECURSIVE get_ceil_from(_, _, _)
get_ceil_from(ptr, ceil, candidate) ==
    IF ptr = None THEN candidate
    ELSE IF ptr.data = ceil THEN ptr.data
    ELSE IF ptr.data < ceil THEN get_ceil_from(ptr.right, ceil, candidate)
    ELSE get_ceil_from(ptr.left, ceil, ptr.data)

get_ceil_strict(r, ceil) == get_ceil_from(r, ceil + 1, 0)

get_ceil(r, ceil) == get_ceil_from(r, ceil, 0)

\* ------------------------------------------------------------------- Iter
\* Iter.stack is a singly linked list used through push_head / pop: the head
\* of the list is the first element of the sequence.  A borrowed &Node is the
\* subtree value it points to (the tree cannot change while it is borrowed).
RECURSIVE push_left_branch(_, _)
push_left_branch(stack, ptr) ==
    IF ptr # None THEN push_left_branch(<<ptr>> \o stack, ptr.left)
    ELSE stack

Iter_new(r) == push_left_branch(<<>>, r)

has_next(stack) == stack # <<>>

\* Iter::next: <<new stack, item>>, item 0 standing for Option::None
Iter_next_no_descent(stack) ==
    IF stack # <<>>
    THEN <<Tail(stack), Head(stack).data>>
    ELSE <<stack, 0>>

Iter_next(stack) ==
    IF stack # <<>>
    THEN LET node == Head(stack)
         IN  <<push_left_branch(Tail(stack), node.right), node.data>>
    ELSE <<stack, 0>>

\* the loop "while let Some(item) = iter.next()" run to exhaustion
RECURSIVE Iter_collect(_)
Iter_collect(stack) ==
    IF has_next(stack)
    THEN LET step == Iter_next(stack)
         IN  <<step[2]>> \o Iter_collect(step[1])
    ELSE <<>>

iter(r) == Iter_new(r)

\* --------------------------------------------------------------- IntoIter
\* IntoIter.stack is a Vec: push appends, pop takes the last element.
RECURSIVE push_left(_, _)
push_left(stack, node) ==
    IF node # None
    THEN push_left(Append(stack, [node EXCEPT !.right = None]), node.right)
    ELSE stack

IntoIter_new(r) == push_left(<<>>, r)

into_iter(r) == IntoIter_new(r)

\* IntoIter::next: <<new stack, item>>, item 0 standing for Option::None
IntoIter_next(stack) ==
    IF stack = <<>> THEN <<stack, 0>>
    ELSE LET node == stack[Len(stack)]
             rest == SubSeq(stack, 1, Len(stack) - 1)
         IN  <<IF node.left # None THEN Append(rest, node.left) ELSE rest,
               node.data>>

\* ======================================================= the linked lists
\* The nodes of a list live in cells, a memory of MaxCells addresses; the
\* address 0 is the null pointer and Option::None.  A cell is "live" (it holds
\* a node), "freed" (its node was deallocated and something still points to
\* it; the bytes of the node are still there) or "unused".
\* A list is a record head, tail, size, cells; an operation gives the list it
\* leaves, its return value ret and the flag ub: it dereferenced or freed a
\* cell that is not live, which is undefined behaviour.

\* addresses of the memory the nodes live in
MaxCells == 4
\* the data of the lists are 1..MaxItem
MaxItem == 2

Items == 1..MaxItem

Addrs == 1..MaxCells

\* usize::MAX, which size wraps to when 1 is subtracted from 0 without
\* overflow checks; it is 2^64 - 1 on the 64-bit targets and stands here as
\* the greatest integer of the model
usize_MAX == 2147483647

\* The addresses the allocator may give the next node: the least unused one
\* (the unused ones are alike), or that of any freed node.
NewAddrs(cs) ==
    LET unused == {a \in Addrs : cs[a].state = "unused"}
    IN  {a \in Addrs : cs[a].state = "freed"} \cup
        {a \in unused : \A b \in unused : a <= b}

\* The addresses met from those of todo, in the order a walk along the links
\* meets them; links[a] is the sequence of the pointers of the cell at a.
RECURSIVE Discover(_, _, _)
Discover(links, todo, order) ==
    IF todo = <<>> THEN order
    ELSE IF Head(todo) = 0 \/ \E i \in 1..Len(order) : order[i] = Head(todo)
    THEN Discover(links, Tail(todo), order)
    ELSE Discover(links, links[Head(todo)] \o Tail(todo), Append(order, Head(todo)))

\* where the address a comes in order; the null pointer stays 0
PlaceIn(order, a) ==
    IF a = 0 THEN 0 ELSE CHOOSE i \in 1..Len(order) : order[i] = a

\* ---------------------------------------------------- singly::LinkedList
singly_Unused == [data |-> 0, next |-> 0, state |-> "unused"]

\* singly::Node::new, put in a Box
singly_Node(data) == [data |-> data, next |-> 0, state |-> "live"]

\* What a list is does not depend on where its nodes lie, and a cell nothing
\* of the list leads to is out of its sight.  Between the calls the cells the
\* list leads to are kept at the addresses 1, 2, ... in the order they are met
\* from head and tail, and the other cells read unused.
singly_settle(cs, head, tail) ==
    LET order == Discover([a \in Addrs |-> <<cs[a].next>>], <<head, tail>>, <<>>)
    IN  [head  |-> PlaceIn(order, head),
         tail  |-> PlaceIn(order, tail),
         cells |-> [i \in Addrs |->
                       IF i <= Len(order)
                       THEN [cs[order[i]] EXCEPT !.next = PlaceIn(order, @)]
                       ELSE singly_Unused]]

singly_new == [head |-> 0, tail |-> 0, size |-> 0]

\* a Box<Node> is dropped: the node, and through its field next the nodes
\* after it, are freed; meeting a node that is not live is a double free
RECURSIVE drop_chain(_, _)
drop_chain(cs, a) ==
    IF a = 0 THEN [cells |-> cs, ub |-> FALSE]
    ELSE IF cs[a].state # "live" THEN [cells |-> cs, ub |-> TRUE]
    ELSE drop_chain([cs EXCEPT ![a].state = "freed"], cs[a].next)

\* the new node is allocated at address a
singly_push_head(l, a, data) ==
    LET cs == [l.cells EXCEPT ![a] = [singly_Node(data) EXCEPT !.next = l.head]]
    IN  [head |-> a,
         tail |-> IF l.tail = 0 THEN a ELSE l.tail,
         size |-> l.size + 1,
         cells |-> cs, ret |-> 0, ub |-> FALSE]

singly_push_tail(l, a, data) ==
    LET cs == [l.cells EXCEPT ![a] = singly_Node(data)]
    IN  IF l.tail # 0
        THEN \* (*tail_ptr).next = Some(new_node) drops the old value of next
             LET dropped == drop_chain(cs, cs[l.tail].next)
             IN  [head |-> l.head, tail |-> a, size |-> l.size + 1,
                  cells |-> [dropped.cells EXCEPT ![l.tail].next = a],
                  ret |-> 0,
                  ub |-> cs[l.tail].state # "live" \/ dropped.ub]
        ELSE \* self.head = Some(new_node) drops the old value of head
             LET dropped == drop_chain(cs, l.head)
             IN  [head |-> a, tail |-> a, size |-> l.size + 1,
                  cells |-> dropped.cells, ret |-> 0, ub |-> dropped.ub]

\* size - 1 below 0 is given as -1: what becomes of it depends on the build
singly_pop(l) ==
    IF l.head # 0
    THEN LET h == l.head
             next == l.cells[h].next
         IN  [head |-> next,
              tail |-> IF next = 0 THEN 0 ELSE l.tail,
              size |-> l.size - 1,
              cells |-> [l.cells EXCEPT ![h].state = "freed"],
              ret |-> l.cells[h].data,
              ub |-> l.cells[h].state # "live"]
    ELSE [head |-> l.head, tail |-> l.tail, size |-> l.size,
          cells |-> l.cells, ret |-> 0, ub |-> FALSE]

\* the walk of insert and set from ptr: the node met when i = index (0 if the
\* chain ends before), and whether a node on the way was not live
RECURSIVE singly_walk(_, _, _)
singly_walk(cs, ptr, index) ==
    IF ptr = 0 THEN [at |-> 0, ub |-> FALSE]
    ELSE IF index = 0 THEN [at |-> ptr, ub |-> cs[ptr].state # "live"]
    ELSE LET rest == singly_walk(cs, cs[ptr].next, index - 1)
         IN  [at |-> rest.at, ub |-> rest.ub \/ cs[ptr].state # "live"]

\* ret is TRUE for Some(()) and FALSE for None
singly_insert(l, a, index, data) ==
    IF index < l.size
    THEN IF index = 0
         THEN [singly_push_head(l, a, data) EXCEPT !.ret = TRUE]
         ELSE LET found == singly_walk(l.cells, l.head, index)
                  node  == found.at
                  added == [singly_Node(data) EXCEPT !.next = l.cells[node].next]
              IN  [head |-> l.head, tail |-> l.tail, size |-> l.size,
                   cells |-> IF node # 0
                             THEN [l.cells EXCEPT ![a] = added, ![node].next = a]
                             ELSE l.cells,
                   ret |-> TRUE, ub |-> found.ub]
    ELSE [head |-> l.head, tail |-> l.tail, size |-> l.size,
          cells |-> l.cells, ret |-> FALSE, ub |-> FALSE]

singly_set(l, index, data) ==
    IF index < l.size
    THEN LET found == singly_walk(l.cells, l.head, index)
             node  == found.at
         IN  [head |-> l.head, tail |-> l.tail, size |-> l.size,
              cells |-> IF node # 0
                        THEN [l.cells EXCEPT ![node].data = data]
                        ELSE l.cells,
              ret |-> TRUE, ub |-> found.ub]
    ELSE [head |-> l.head, tail |-> l.tail, size |-> l.size,
          cells |-> l.cells, ret |-> FALSE, ub |-> FALSE]

\* self.head = None drops the nodes of the list
singly_clear(l) ==
    LET dropped == drop_chain(l.cells, l.head)
    IN  [head |-> 0, tail |-> 0, size |-> 0,
         cells |-> dropped.cells, ret |-> 0, ub |-> dropped.ub]

\* Queue::tail for singly::LinkedList: Box::from_raw(self.tail) makes a Box
\* that owns the tail node; it is dropped once the data are cloned
singly_Queue_tail(l) ==
    IF l.tail # 0
    THEN LET dropped == drop_chain(l.cells, l.tail)
         IN  [head |-> l.head, tail |-> l.tail, size |-> l.size,
              cells |-> dropped.cells,
              ret |-> l.cells[l.tail].data,
              ub |-> dropped.ub]
    ELSE [head |-> l.head, tail |-> l.tail, size |-> l.size,
          cells |-> l.cells, ret |-> 0, ub |-> FALSE]

\* Queue::head and Stack::peek for singly::LinkedList
singly_Queue_head(l) ==
    IF l.head # 0
    THEN [head |-> l.head, tail |-> l.tail, size |-> l.size, cells |-> l.cells,
          ret |-> l.cells[l.head].data, ub |-> l.cells[l.head].state # "live"]
    ELSE [head |-> l.head, tail |-> l.tail, size |-> l.size, cells |-> l.cells,
          ret |-> 0, ub |-> FALSE]

\* ---------------------------------------------------- doubly::LinkedList
\* The nodes are shared by Rc: a node is freed when the last Rc to it is
\* dropped.  head, tail and the fields next and prev of the live nodes are
\* the Rcs there are between the calls.
doubly_Unused == [data |-> 0, next |-> 0, prev |-> 0, state |-> "unused"]

\* doubly::Node::new, put in an Rc<RefCell<_>>
doubly_Node(data) == [data |-> data, next |-> 0, prev |-> 0, state |-> "live"]

\* Rc::strong_count of the node at a, the handles local to a call apart
strong_count(cs, head, tail, a) ==
    (IF head = a THEN 1 ELSE 0) + (IF tail = a THEN 1 ELSE 0)
    + Cardinality({c \in Addrs : cs[c].state = "live" /\ cs[c].next = a})
    + Cardinality({c \in Addrs : cs[c].state = "live" /\ cs[c].prev = a})

\* the nodes no Rc points to are freed, and the Rcs they hold are dropped
RECURSIVE doubly_release(_, _, _)
doubly_release(cs, head, tail) ==
    LET dead == {a \in Addrs : /\ cs[a].state = "live"
                               /\ strong_count(cs, head, tail, a) = 0}
    IN  IF dead = {} THEN cs
        ELSE doubly_release([a \in Addrs |-> IF a \in dead THEN doubly_Unused
                                                          ELSE cs[a]],
                            head, tail)

\* As for the singly-linked list, the cells are kept at the addresses 1, 2,
\* ... in the order they are met from head and tail.  Nodes that keep each
\* other alive and that the list does not lead to are leaked; those of them
\* that lead to a node of the list hold an Rc to it and are kept, the others
\* are out of sight and read unused.
doubly_settle(cs, head, tail) ==
    LET freed   == doubly_release(cs, head, tail)
        links   == [a \in Addrs |-> <<freed[a].next, freed[a].prev>>]
        seen    == Discover(links, <<head, tail>>, <<>>)
        met(a)  == \E i \in 1..Len(seen) : seen[i] = a
        holds(a) == LET way == Discover(links, <<a>>, <<>>)
                    IN  \E j \in 1..Len(way) : met(way[j])
        leaked  == [a \in Addrs |->
                       IF freed[a].state = "live" /\ ~met(a) /\ holds(a)
                       THEN a ELSE 0]
        order   == Discover(links, leaked, seen)
    IN  [head  |-> PlaceIn(order, head),
         tail  |-> PlaceIn(order, tail),
         cells |-> [i \in Addrs |->
                       IF i <= Len(order)
                       THEN [freed[order[i]] EXCEPT !.next = PlaceIn(order, @),
                                                    !.prev = PlaceIn(order, @)]
                       ELSE doubly_Unused]]

doubly_new == [head |-> 0, tail |-> 0, size |-> 0]

doubly_is_empty(l) == l.head = 0

doubly_push_head(l, a, data) ==
    LET cs == [l.cells EXCEPT ![a] = [doubly_Node(data) EXCEPT !.next = l.head]]
    IN  [head |-> a,
         tail |-> IF l.head # 0 THEN l.tail ELSE a,
         size |-> l.size + 1,
         cells |-> IF l.head # 0 THEN [cs EXCEPT ![l.head].prev = a] ELSE cs,
         ret |-> 0]

doubly_push_tail(l, a, data) ==
    LET cs == [l.cells EXCEPT ![a] = [doubly_Node(data) EXCEPT !.prev = l.tail]]
    IN  [head |-> IF l.tail # 0 THEN l.head ELSE a,
         tail |-> a,
         size |-> l.size + 1,
         cells |-> IF l.tail # 0 THEN [cs EXCEPT ![l.tail].next = a] ELSE cs,
         ret |-> 0]

\* Rc::try_unwrap(head) gives the node only if the local head is the one Rc
\* to it; if not, ok() is None, the closure is not run and None is returned
doubly_pop_head(l) ==
    IF l.head # 0
    THEN LET h    == l.head
             next == l.cells[h].next
             cs   == IF next # 0 THEN [l.cells EXCEPT ![next].prev = 0]
                                 ELSE l.cells
         IN  IF strong_count(cs, next, l.tail, h) = 0
             THEN [head |-> next, tail |-> l.tail, size |-> l.size - 1,
                   cells |-> [cs EXCEPT ![h] = doubly_Unused],
                   ret |-> cs[h].data]
             ELSE [head |-> next, tail |-> l.tail, size |-> l.size,
                   cells |-> cs, ret |-> 0]
    ELSE [head |-> l.head, tail |-> l.tail, size |-> l.size,
          cells |-> l.cells, ret |-> 0]

doubly_pop_tail(l) ==
    IF l.tail # 0
    THEN LET t    == l.tail
             prev == l.cells[t].prev
             cs   == IF prev # 0 THEN [l.cells EXCEPT ![prev].next = 0]
                                 ELSE l.cells
         IN  IF strong_count(cs, l.head, prev, t) = 0
             THEN [head |-> l.head, tail |-> prev, size |-> l.size - 1,
                   cells |-> [cs EXCEPT ![t] = doubly_Unused],
                   ret |-> cs[t].data]
             ELSE [head |-> l.head, tail |-> prev, size |-> l.size,
                   cells |-> cs, ret |-> 0]
    ELSE [head |-> l.head, tail |-> l.tail, size |-> l.size,
          cells |-> l.cells, ret |-> 0]

\* the walk of insert, set and get: the node met when i = index, 0 if the
\* chain ends before
RECURSIVE doubly_walk(_, _, _)
doubly_walk(cs, ptr, index) ==
    IF ptr = 0 THEN 0
    ELSE IF index = 0 THEN ptr
    ELSE doubly_walk(cs, cs[ptr].next, index - 1)

\* ret is TRUE for Some(()) and FALSE for None
doubly_insert(l, a, index, data) ==
    IF index < l.size
    THEN LET node == doubly_walk(l.cells, l.head, index)
             next == l.cells[node].next
             added == [doubly_Node(data) EXCEPT !.next = next, !.prev = node]
             cs   == [l.cells EXCEPT ![a] = added]
             cs1  == IF next # 0 THEN [cs EXCEPT ![next].prev = a] ELSE cs
         IN  [head |-> l.head, tail |-> l.tail, size |-> l.size,
              cells |-> IF node # 0 THEN [cs1 EXCEPT ![node].next = a]
                                    ELSE l.cells,
              ret |-> TRUE]
    ELSE [head |-> l.head, tail |-> l.tail, size |-> l.size,
          cells |-> l.cells, ret |-> FALSE]

doubly_set(l, index, data) ==
    IF index < l.size
    THEN LET node == doubly_walk(l.cells, l.head, index)
         IN  [head |-> l.head, tail |-> l.tail, size |-> l.size,
              cells |-> IF node # 0 THEN [l.cells EXCEPT ![node].data = data]
                                    ELSE l.cells,
              ret |-> TRUE]
    ELSE [head |-> l.head, tail |-> l.tail, size |-> l.size,
          cells |-> l.cells, ret |-> FALSE]

\* the data at index, 0 for None
doubly_get(l, index) ==
    IF index < l.size
    THEN LET node == doubly_walk(l.cells, l.head, index)
         IN  IF node # 0 THEN l.cells[node].data ELSE 0
    ELSE 0

doubly_clear(l) ==
    [head |-> 0, tail |-> 0, size |-> 0, cells |-> l.cells, ret |-> 0]

\* Iterator for doubly::IntoIter: the list is the collection of the iterator
doubly_IntoIter_next(l) == doubly_pop_head(l)

\* Stack::pop and Queue::poll for doubly::LinkedList
doubly_Stack_pop(l) == doubly_pop_head(l)

doubly_Queue_poll(l) == doubly_pop_head(l)

\* Stack::peek for doubly::LinkedList
doubly_Stack_peek(l) == doubly_get(l, 0)

\* ============================================================ BinaryHeap
\* heap is the Vec<Option<T>>, a function on 0..len-1 whose value 0 is the
\* slot None; cmp is "min" for |a, b| a.cmp(b) and "max" for |a, b| b.cmp(a).

\* the elements of the heaps are 1..MaxPrio
MaxPrio == 3
\* the most elements a heap is given
MaxHeap == 4

Prios == 1..MaxPrio

RECURSIVE SeqsOver(_, _)
SeqsOver(S, n) ==
    IF n = 0 THEN {<<>>}
    ELSE LET shorter == SeqsOver(S, n - 1)
         IN shorter \cup {Append(s, x) : s \in {t \in shorter : Len(t) = n - 1}, x \in S}

HeapInputs == SeqsOver(Prios, MaxExt)

left(i) == 2 * i

right(i) == 2 * i + 1

parent(i) == i \div 2

\* (self.cmp)(a, b).is_lt() and .is_le()
cmp_is_lt(cmp, a, b) == IF cmp = "min" THEN a < b ELSE b < a

cmp_is_le(cmp, a, b) == IF cmp = "min" THEN a <= b ELSE b <= a

Vec_len(v) == Cardinality(DOMAIN v)

Vec_push(v, x) == [i \in 0..Vec_len(v) |-> IF i = Vec_len(v) THEN x ELSE v[i]]

\* Vec::pop and Vec::truncate: the vector without its last slot, its first n
Vec_truncate(v, n) == [i \in 0..(n - 1) |-> v[i]]

Vec_swap(v, i, j) == [v EXCEPT ![i] = v[j], ![j] = v[i]]

heap_new == [heap |-> [i \in {0} |-> 0], size |-> 0]

heap_is_empty(h) == h.size = 0

\* the loop of offer from index i
RECURSIVE sift_up(_, _, _)
sift_up(v, i, cmp) ==
    IF i > 1
    THEN LET p == parent(i)
         IN  IF v[i] # 0 /\ v[p] # 0 /\ cmp_is_lt(cmp, v[i], v[p])
             THEN sift_up(Vec_swap(v, i, p), p, cmp)
             ELSE v
    ELSE v

heap_offer(h, cmp, data) ==
    [heap |-> sift_up(Vec_push(h.heap, data), h.size + 1, cmp),
     size |-> h.size + 1]

RECURSIVE heap_extend(_, _, _)
heap_extend(h, cmp, items) ==
    IF items = <<>> THEN h
    ELSE heap_extend(heap_offer(h, cmp, Head(items)), cmp, Tail(items))

heap_from(cmp, items) == heap_extend(heap_new, cmp, items)

\* the loop of poll from index i, size being the size after the removal
RECURSIVE sift_down(_, _, _, _)
sift_down(v, i, size, cmp) ==
    LET l == left(i)
        r == right(i)
    IN  IF l > size THEN v
        ELSE LET best == IF r <= size
                         THEN IF cmp_is_le(cmp, v[l], v[r]) THEN l ELSE r
                         ELSE l
             IN  IF cmp_is_lt(cmp, v[best], v[i])
                 THEN sift_down(Vec_swap(v, i, best), best, size, cmp)
                 ELSE v

heap_poll_unsifted(h, cmp) ==
    IF h.size = 0 THEN [heap |-> h.heap, size |-> h.size, ret |-> 0]
    ELSE IF h.size = 1
    THEN [heap |-> Vec_truncate(h.heap, Vec_len(h.heap) - 1), size |-> 0,
          ret |-> h.heap[1]]
    ELSE LET last == h.heap[Vec_len(h.heap) - 1]
         IN  [heap |-> [Vec_truncate(h.heap, Vec_len(h.heap) - 1) EXCEPT ![1] = last],
              size |-> h.size - 1,
              ret |-> h.heap[1]]

\* ret is the element polled, 0 for None
heap_poll(h, cmp) ==
    IF h.size = 0 THEN [heap |-> h.heap, size |-> h.size, ret |-> 0]
    ELSE IF h.size = 1
    THEN [heap |-> Vec_truncate(h.heap, Vec_len(h.heap) - 1), size |-> 0,
          ret |-> h.heap[1]]
    ELSE LET last == h.heap[Vec_len(h.heap) - 1]
             v    == [Vec_truncate(h.heap, Vec_len(h.heap) - 1) EXCEPT ![1] = last]
         IN  [heap |-> sift_down(v, 1, h.size - 1, cmp),
              size |-> h.size - 1,
              ret |-> h.heap[1]]

heap_peek(h) == IF Vec_len(h.heap) > 1 THEN h.heap[1] ELSE 0

heap_clear(h) == [heap |-> Vec_truncate(h.heap, 1), size |-> 0]

\* Iterator for heap::IntoIter: the heap is the consumer of the iterator
heap_IntoIter_next(h, cmp) == heap_poll(h, cmp)

\* ------------------------------------------------------------ the program
VARIABLES
    root,       \* AVLTree.root
    size,       \* AVLTree.size
    mode,       \* "idle": the handle is free; "iter": borrowed by an Iter;
                \* "into": moved into an IntoIter (root, size then read None, 0)
    iterStack,  \* Iter.stack
    intoStack,  \* IntoIter.stack
    yielded,    \* the items the live iterator has returned so far
    nextCalls,  \* the calls of next() made on the live iterator
    absSet,     \* the mathematical set the tree stands for
    lastOp,     \* the last operation called
    lastKey,    \* its key argument (0 when it has none)
    lastRet,    \* the boolean it returned (FALSE when it returns none)
    lastItem,   \* the item next() returned (0 for Option::None)
    prevRoot,   \* root before the last operation
    prevSize,   \* size before the last operation
    cloneRoot,  \* root of the tree made by clone() (None when there is none)
    cloneSize,  \* size of the tree made by clone()
    script,     \* the sequence of keys a scripted run builds its tree from
    scriptAt,   \* how many keys of script have been inserted
    cells,      \* the memory the nodes of the linked list live in
    listHead,   \* LinkedList.head (0 for None)
    listTail,   \* LinkedList.tail (0 for null / None)
    listSize,   \* LinkedList.size
    heap,       \* BinaryHeap.heap
    heapSize,   \* BinaryHeap.size
    cmp,        \* BinaryHeap.cmp
    offered     \* how often each element was offered and not yet polled

vars == <<root, size, mode, iterStack, intoStack, yielded, nextCalls, absSet,
          lastOp, lastKey, lastRet, lastItem, prevRoot, prevSize,
          cloneRoot, cloneSize, script, scriptAt,
          cells, listHead, listTail, listSize, heap, heapSize, cmp, offered>>

Range(s) == {s[i] : i \in 1..Len(s)}

NoIterator ==
    /\ iterStack' = <<>>
    /\ intoStack' = <<>>
    /\ yielded' = <<>>
    /\ nextCalls' = 0
    /\ lastItem' = 0

\* a clone made by the call before is dropped
NoClone ==
    /\ cloneRoot' = None
    /\ cloneSize' = 0

NoScript == UNCHANGED <<script, scriptAt>>

\* a call on the tree leaves the list and the heap alone
TreeOnly ==
    UNCHANGED <<cells, listHead, listTail, listSize, heap, heapSize, cmp, offered>>

\* no linked list has been made
NoListYet ==
    /\ cells = <<>>
    /\ listHead = 0
    /\ listTail = 0
    /\ listSize = 0

\* no heap has been made
NoHeapYet ==
    /\ heap = <<>>
    /\ heapSize = 0
    /\ cmp = "min"
    /\ offered = <<>>

Remember(op, key, ret) ==
    /\ lastOp' = op
    /\ lastKey' = key
    /\ lastRet' = ret
    /\ prevRoot' = root
    /\ prevSize' = size

\* AVLTree::new()
Start(m) ==
    /\ root = new.root
    /\ size = new.size
    /\ mode = m
    /\ iterStack = <<>>
    /\ intoStack = <<>>
    /\ yielded = <<>>
    /\ nextCalls = 0
    /\ absSet = {}
    /\ lastOp = "new"
    /\ lastKey = 0
    /\ lastRet = FALSE
    /\ lastItem = 0
    /\ prevRoot = None
    /\ prevSize = 0
    /\ cloneRoot = None
    /\ cloneSize = 0

Init ==
    /\ Start("idle")
    /\ script = <<>>
    /\ scriptAt = 0
    /\ NoListYet
    /\ NoHeapYet

\* the tree was moved into an IntoIter: a fresh one is made with AVLTree::new()
New ==
    /\ TreeOnly
    /\ NoClone
    /\ NoScript
    /\ mode = "into"
    /\ root' = new.root
    /\ size' = new.size
    /\ mode' = "idle"
    /\ absSet' = {}
    /\ Remember("new", 0, FALSE)
    /\ NoIterator

\* the tree was moved into an IntoIter: another is built with
\* AVLTree::from(items)
From(items) ==
    /\ TreeOnly
    /\ NoClone
    /\ NoScript
    /\ mode = "into"
    /\ LET t == from(items)
       IN  root' = t.root /\ size' = t.size
    /\ mode' = "idle"
    /\ absSet' = Range(items)
    /\ Remember("from", 0, FALSE)
    /\ NoIterator

Insert(k) ==
    /\ TreeOnly
    /\ NoClone
    /\ NoScript
    /\ mode = "idle"
    /\ LET t == insert(root, size, k)
       IN  root' = t.root /\ size' = t.size /\ Remember("insert", k, t.ret)
    /\ absSet' = absSet \cup {k}
    /\ UNCHANGED <<mode, iterStack, intoStack, yielded, nextCalls, lastItem>>

Remove(k) ==
    /\ TreeOnly
    /\ NoClone
    /\ NoScript
    /\ mode = "idle"
    /\ LET t == remove(root, size, k)
       IN  root' = t.root /\ size' = t.size /\ Remember("remove", k, t.ret)
    /\ absSet' = absSet \ {k}
    /\ UNCHANGED <<mode, iterStack, intoStack, yielded, nextCalls, lastItem>>

Extend(items) ==
    /\ TreeOnly
    /\ NoClone
    /\ NoScript
    /\ mode = "idle"
    /\ LET t == extend(root, size, items)
       IN  root' = t.root /\ size' = t.size
    /\ absSet' = absSet \cup Range(items)
    /\ Remember("extend", 0, FALSE)
    /\ UNCHANGED <<mode, iterStack, intoStack, yielded, nextCalls, lastItem>>

Clear ==
    /\ TreeOnly
    /\ NoClone
    /\ NoScript
    /\ mode = "idle"
    /\ root' = clear.root
    /\ size' = clear.size
    /\ absSet' = {}
    /\ Remember("clear", 0, FALSE)
    /\ UNCHANGED <<mode, iterStack, intoStack, yielded, nextCalls, lastItem>>

\* let copy = tree.clone()
Clone ==
    /\ TreeOnly
    /\ mode = "idle"
    /\ LET c == clone(root, size)
       IN  cloneRoot' = c.root /\ cloneSize' = c.size
    /\ Remember("clone", 0, FALSE)
    /\ NoScript
    /\ UNCHANGED <<root, size, mode, absSet, iterStack, intoStack, yielded,
                   nextCalls, lastItem>>

\* tree.iter()
IterStart ==
    /\ TreeOnly
    /\ NoClone
    /\ NoScript
    /\ mode = "idle"
    /\ mode' = "iter"
    /\ iterStack' = iter(root)
    /\ intoStack' = <<>>
    /\ yielded' = <<>>
    /\ nextCalls' = 0
    /\ lastItem' = 0
    /\ Remember("iter", 0, FALSE)
    /\ UNCHANGED <<root, size, absSet>>

\* Iter::next
IterNext ==
    /\ TreeOnly
    /\ NoClone
    /\ NoScript
    /\ mode = "iter"
    /\ nextCalls < size + MaxExtraNext
    /\ LET step == Iter_next(iterStack)
       IN  /\ iterStack' = step[1]
           /\ lastItem' = step[2]
           /\ yielded' = IF step[2] # 0 THEN Append(yielded, step[2]) ELSE yielded
    /\ nextCalls' = nextCalls + 1
    /\ Remember("next", 0, FALSE)
    /\ UNCHANGED <<root, size, mode, intoStack, absSet>>

\* the Iter is dropped, which ends the borrow of the tree
IterDrop ==
    /\ TreeOnly
    /\ NoClone
    /\ NoScript
    /\ mode = "iter"
    /\ mode' = "idle"
    /\ Remember("drop", 0, FALSE)
    /\ NoIterator
    /\ UNCHANGED <<root, size, absSet>>

\* tree.into_iter(): the tree is moved into the iterator
IntoIterStart ==
    /\ TreeOnly
    /\ NoClone
    /\ NoScript
    /\ mode = "idle"
    /\ mode' = "into"
    /\ intoStack' = into_iter(root)
    /\ iterStack' = <<>>
    /\ yielded' = <<>>
    /\ nextCalls' = 0
    /\ lastItem' = 0
    /\ root' = None
    /\ size' = 0
    /\ Remember("into_iter", 0, FALSE)
    /\ UNCHANGED absSet

\* IntoIter::next
IntoIterNext ==
    /\ TreeOnly
    /\ NoClone
    /\ NoScript
    /\ mode = "into"
    /\ nextCalls < prevSize + MaxExtraNext
    /\ LET step == IntoIter_next(intoStack)
       IN  /\ intoStack' = step[1]
           /\ lastItem' = step[2]
           /\ yielded' = IF step[2] # 0 THEN Append(yielded, step[2]) ELSE yielded
    /\ nextCalls' = nextCalls + 1
    /\ lastOp' = "into_next"
    /\ UNCHANGED <<root, size, mode, iterStack, absSet, lastKey, lastRet,
                   prevRoot, prevSize>>

Next ==
    \/ New
    \/ \E items \in ExtendInputs : From(items)
    \/ \E k \in Keys : Insert(k)
    \/ \E k \in Keys : Remove(k)
    \/ \E items \in ExtendInputs : Extend(items)
    \/ Clear
    \/ Clone
    \/ IterStart
    \/ IterNext
    \/ IterDrop
    \/ IntoIterStart
    \/ IntoIterNext

Spec == Init /\ [][Next]_vars

\* ----------------------------------------------------------- scripted runs
\* A scripted run (mode "script") builds one tree from the sequence script,
\* either key by key with insert or in one call of AVLTree::from.
Permutations(S) ==
    {p \in [1..Cardinality(S) -> S] : \A i, j \in 1..Cardinality(S) : p[i] = p[j] => i = j}

MixedScenario == <<5, 3, 8, 1, 4, 7, 9>>

DescendingScenario == <<10, 9, 8, 7, 6, 5, 4, 3, 2, 1>>

Scenarios ==
    {MixedScenario, DescendingScenario} \cup Permutations({1, 3, 7, 9})

Scripts == SeqsUpTo(MaxScript) \cup Scenarios

ScriptInit ==
    /\ Start("script")
    /\ script \in Scripts
    /\ scriptAt = 0
    /\ NoListYet
    /\ NoHeapYet

ScriptInsert ==
    /\ TreeOnly
    /\ mode = "script"
    /\ scriptAt < Len(script)
    /\ LET k == script[scriptAt + 1]
           t == insert(root, size, k)
       IN  /\ root' = t.root
           /\ size' = t.size
           /\ Remember("insert", k, t.ret)
           /\ absSet' = absSet \cup {k}
    /\ scriptAt' = scriptAt + 1
    /\ NoClone
    /\ UNCHANGED <<mode, script, iterStack, intoStack, yielded, nextCalls, lastItem>>

ScriptFrom ==
    /\ TreeOnly
    /\ mode = "script"
    /\ scriptAt = 0
    /\ script # <<>>
    /\ LET t == from(script)
       IN  root' = t.root /\ size' = t.size
    /\ Remember("from", 0, FALSE)
    /\ absSet' = Range(script)
    /\ scriptAt' = Len(script)
    /\ NoClone
    /\ UNCHANGED <<mode, script, iterStack, intoStack, yielded, nextCalls, lastItem>>

ScriptNext ==
    \/ ScriptInsert
    \/ ScriptFrom

\* the program run freely or by a script
AnyInit == Init \/ ScriptInit

AnyNext == Next \/ ScriptNext

AnySpec == AnyInit /\ [][AnyNext]_vars

\* ------------------------------------------------------------------ clones
\* A tree is built with AVLTree::from (mode "built") and cloned; from then on
\* one of the two trees is mutated, the clone (mode "cloneLive") or the
\* original (mode "origLive").  prevRoot and prevSize keep the tree that was
\* cloned.
CloneInputs == ExtendInputs \cup Scenarios

CloneInit ==
    /\ \E items \in CloneInputs :
          /\ root = from(items).root
          /\ size = from(items).size
          /\ absSet = Range(items)
    /\ mode = "built"
    /\ iterStack = <<>>
    /\ intoStack = <<>>
    /\ yielded = <<>>
    /\ nextCalls = 0
    /\ lastOp = "from"
    /\ lastKey = 0
    /\ lastRet = FALSE
    /\ lastItem = 0
    /\ prevRoot = None
    /\ prevSize = 0
    /\ cloneRoot = None
    /\ cloneSize = 0
    /\ script = <<>>
    /\ scriptAt = 0
    /\ NoListYet
    /\ NoHeapYet

TakeClone(live) ==
    /\ TreeOnly
    /\ mode = "built"
    /\ mode' = live
    /\ LET c == clone(root, size)
       IN  cloneRoot' = c.root /\ cloneSize' = c.size
    /\ Remember("clone", 0, FALSE)
    /\ NoScript
    /\ UNCHANGED <<root, size, absSet, iterStack, intoStack, yielded,
                   nextCalls, lastItem>>

\* what a mutating call on either tree leaves alone
CloneFrame ==
    /\ TreeOnly
    /\ NoScript
    /\ UNCHANGED <<mode, absSet, iterStack, intoStack, yielded, nextCalls,
                   lastItem, lastKey, lastRet, prevRoot, prevSize>>

CloneInsert(k) ==
    /\ mode = "cloneLive"
    /\ LET t == insert(cloneRoot, cloneSize, k)
       IN  cloneRoot' = t.root /\ cloneSize' = t.size
    /\ lastOp' = "insert"
    /\ CloneFrame
    /\ UNCHANGED <<root, size>>

CloneRemove(k) ==
    /\ mode = "cloneLive"
    /\ LET t == remove(cloneRoot, cloneSize, k)
       IN  cloneRoot' = t.root /\ cloneSize' = t.size
    /\ lastOp' = "remove"
    /\ CloneFrame
    /\ UNCHANGED <<root, size>>

CloneClear ==
    /\ mode = "cloneLive"
    /\ cloneRoot' = clear.root
    /\ cloneSize' = clear.size
    /\ lastOp' = "clear"
    /\ CloneFrame
    /\ UNCHANGED <<root, size>>

OrigInsert(k) ==
    /\ mode = "origLive"
    /\ LET t == insert(root, size, k)
       IN  root' = t.root /\ size' = t.size
    /\ lastOp' = "insert"
    /\ CloneFrame
    /\ UNCHANGED <<cloneRoot, cloneSize>>

OrigRemove(k) ==
    /\ mode = "origLive"
    /\ LET t == remove(root, size, k)
       IN  root' = t.root /\ size' = t.size
    /\ lastOp' = "remove"
    /\ CloneFrame
    /\ UNCHANGED <<cloneRoot, cloneSize>>

OrigClear ==
    /\ mode = "origLive"
    /\ root' = clear.root
    /\ size' = clear.size
    /\ lastOp' = "clear"
    /\ CloneFrame
    /\ UNCHANGED <<cloneRoot, cloneSize>>

CloneNext ==
    \/ \E live \in {"cloneLive", "origLive"} : TakeClone(live)
    \/ \E k \in Keys : CloneInsert(k)
    \/ \E k \in Keys : CloneRemove(k)
    \/ CloneClear
    \/ \E k \in Keys : OrigInsert(k)
    \/ \E k \in Keys : OrigRemove(k)
    \/ OrigClear

CloneSpec == CloneInit /\ [][CloneNext]_vars

\* ------------------------------------------------------------ round trips
\* A new tree is filled with distinct keys in any order (mode "fill") and
\* then emptied again in any order (mode "drain").
RoundTripInit ==
    /\ Start("fill")
    /\ script = <<>>
    /\ scriptAt = 0
    /\ NoListYet
    /\ NoHeapYet

Fill(k) ==
    /\ TreeOnly
    /\ NoClone
    /\ NoScript
    /\ mode = "fill"
    /\ k \notin absSet
    /\ LET t == insert(root, size, k)
       IN  root' = t.root /\ size' = t.size /\ Remember("insert", k, t.ret)
    /\ absSet' = absSet \cup {k}
    /\ UNCHANGED <<mode, iterStack, intoStack, yielded, nextCalls, lastItem>>

Drain(k) ==
    /\ TreeOnly
    /\ NoClone
    /\ NoScript
    /\ mode \in {"fill", "drain"}
    /\ k \in absSet
    /\ mode' = "drain"
    /\ LET t == remove(root, size, k)
       IN  root' = t.root /\ size' = t.size /\ Remember("remove", k, t.ret)
    /\ absSet' = absSet \ {k}
    /\ UNCHANGED <<iterStack, intoStack, yielded, nextCalls, lastItem>>

RoundTripNext ==
    \/ \E k \in Keys : Fill(k)
    \/ \E k \in Keys : Drain(k)

RoundTripSpec == RoundTripInit /\ [][RoundTripNext]_vars

\* ------------------------------------------------------ linked-list runs
\* what a call on a list or on a heap leaves alone
NoTree ==
    UNCHANGED <<root, size, iterStack, intoStack, absSet, prevRoot, prevSize,
                cloneRoot, cloneSize, script, scriptAt>>

NoList == UNCHANGED <<cells, listHead, listTail, listSize>>

NoHeap == UNCHANGED <<heap, heapSize, cmp, offered>>

TheList ==
    [head |-> listHead, tail |-> listTail, size |-> listSize, cells |-> cells]

\* The outcomes of a call op on the singly-linked list that leaves res
\* and returns item (data, 0 for None) and ok (Some(()) or None).
\*  - The call met no undefined behaviour: the list is as res says.
\*  - The call dereferenced or freed a node that is not live.  What follows
\*    is undefined: the process is aborted (mode "aborted"), or it goes on
\*    with the freed nodes still holding their bytes, as res says, data read
\*    from a freed node being possibly anything (mode "undefined").  The run
\*    is not followed further.
\*  - size was 0 and 1 is taken from it: with overflow checks the call
\*    panics, without them size wraps to usize::MAX.  The run ends there.
SinglyCall(op, res, item, ok) ==
    /\ lastOp' = op
    /\ lastKey' = 0
    /\ \/ /\ res.size >= 0
          /\ LET l == singly_settle(res.cells, res.head, res.tail)
             IN  listHead' = l.head /\ listTail' = l.tail /\ cells' = l.cells
          /\ listSize' = res.size
          /\ lastItem' \in (IF res.ub /\ item # 0 THEN Items ELSE {item})
          /\ lastRet' = ok
          /\ mode' = IF res.ub THEN "undefined" ELSE mode
       \/ /\ res.ub
          /\ mode' = "aborted"
          /\ lastItem' = 0
          /\ lastRet' = FALSE
          /\ NoList
       \/ /\ res.size < 0
          /\ mode' = "panicked"
          /\ lastItem' = 0
          /\ lastRet' = FALSE
          /\ NoList
       \/ /\ res.size < 0
          /\ mode' = "wrapped"
          /\ LET l == singly_settle(res.cells, res.head, res.tail)
             IN  listHead' = l.head /\ listTail' = l.tail /\ cells' = l.cells
          /\ listSize' = usize_MAX
          /\ lastItem' \in (IF res.ub /\ item # 0 THEN Items ELSE {item})
          /\ lastRet' = ok
    /\ NoTree
    /\ NoHeap
    /\ UNCHANGED <<yielded, nextCalls>>

\* singly::LinkedList::new()
SinglyInit ==
    /\ Start("singly")
    /\ script = <<>>
    /\ scriptAt = 0
    /\ cells = [a \in Addrs |-> singly_Unused]
    /\ listHead = singly_new.head
    /\ listTail = singly_new.tail
    /\ listSize = singly_new.size
    /\ NoHeapYet

\* push_head, Stack::push
SinglyPushHead(a, x) ==
    /\ mode = "singly"
    /\ listSize < MaxCells
    /\ a \in NewAddrs(cells)
    /\ SinglyCall("push_head", singly_push_head(TheList, a, x), 0, FALSE)

\* push_tail, Queue::offer
SinglyPushTail(a, x) ==
    /\ mode = "singly"
    /\ listSize < MaxCells
    /\ a \in NewAddrs(cells)
    /\ SinglyCall("push_tail", singly_push_tail(TheList, a, x), 0, FALSE)

\* pop, Stack::pop, Queue::poll
SinglyPop ==
    /\ mode = "singly"
    /\ LET res == singly_pop(TheList)
       IN  SinglyCall("pop", res, res.ret, FALSE)

SinglyInsert(a, index, x) ==
    /\ mode = "singly"
    /\ listSize < MaxCells
    /\ a \in NewAddrs(cells)
    /\ LET res == singly_insert(TheList, a, index, x)
       IN  SinglyCall("insert", res, 0, res.ret)

SinglySet(index, x) ==
    /\ mode = "singly"
    /\ LET res == singly_set(TheList, index, x)
       IN  SinglyCall("set", res, 0, res.ret)

SinglyClear ==
    /\ mode = "singly"
    /\ SinglyCall("clear", singly_clear(TheList), 0, FALSE)

\* Queue::tail
SinglyTail ==
    /\ mode = "singly"
    /\ LET res == singly_Queue_tail(TheList)
       IN  SinglyCall("tail", res, res.ret, FALSE)

\* Queue::head, Stack::peek
SinglyHead ==
    /\ mode = "singly"
    /\ LET res == singly_Queue_head(TheList)
       IN  SinglyCall("head", res, res.ret, FALSE)

\* the list goes out of scope: its field head is dropped, and the run ends
SinglyDrop ==
    /\ mode = "singly"
    /\ LET res == singly_clear(TheList)
       IN  \/ /\ mode' = "dropped"
              /\ listHead' = 0
              /\ listTail' = 0
              /\ listSize' = 0
              /\ cells' = singly_settle(res.cells, 0, 0).cells
           \/ /\ res.ub
              /\ mode' = "aborted"
              /\ NoList
    /\ lastOp' = "drop"
    /\ lastKey' = 0
    /\ lastItem' = 0
    /\ lastRet' = FALSE
    /\ NoTree
    /\ NoHeap
    /\ UNCHANGED <<yielded, nextCalls>>

SinglyNext ==
    \/ \E a \in Addrs, x \in Items : SinglyPushHead(a, x)
    \/ \E a \in Addrs, x \in Items : SinglyPushTail(a, x)
    \/ SinglyPop
    \/ \E a \in Addrs, index \in 0..MaxCells, x \in Items : SinglyInsert(a, index, x)
    \/ \E index \in 0..MaxCells, x \in Items : SinglySet(index, x)
    \/ SinglyClear
    \/ SinglyTail
    \/ SinglyHead
    \/ SinglyDrop

SinglySpec == SinglyInit /\ [][SinglyNext]_vars

\* The outcomes of a call on the doubly-linked list: the list is as res says,
\* or, size being 0 and 1 taken from it, the call panics (overflow checks) or
\* size wraps to usize::MAX, where the run ends.
DoublyCall(op, res, item, ok) ==
    /\ lastOp' = op
    /\ lastKey' = 0
    /\ \/ /\ res.size >= 0
          /\ LET l == doubly_settle(res.cells, res.head, res.tail)
             IN  listHead' = l.head /\ listTail' = l.tail /\ cells' = l.cells
          /\ listSize' = res.size
          /\ lastItem' = item
          /\ lastRet' = ok
          /\ UNCHANGED mode
       \/ /\ res.size < 0
          /\ mode' = "panicked"
          /\ lastItem' = 0
          /\ lastRet' = FALSE
          /\ NoList
       \/ /\ res.size < 0
          /\ mode' = "wrapped"
          /\ LET l == doubly_settle(res.cells, res.head, res.tail)
             IN  listHead' = l.head /\ listTail' = l.tail /\ cells' = l.cells
          /\ listSize' = usize_MAX
          /\ lastItem' = item
          /\ lastRet' = ok
    /\ NoTree
    /\ NoHeap

\* doubly::LinkedList::new()
DoublyInit ==
    /\ Start("doubly")
    /\ script = <<>>
    /\ scriptAt = 0
    /\ cells = [a \in Addrs |-> doubly_Unused]
    /\ listHead = doubly_new.head
    /\ listTail = doubly_new.tail
    /\ listSize = doubly_new.size
    /\ NoHeapYet

\* push_head, Stack::push
DoublyPushHead(x) ==
    /\ mode = "doubly"
    /\ listSize < MaxCells
    /\ \E a \in NewAddrs(cells) :
          DoublyCall("push_head", doubly_push_head(TheList, a, x), 0, FALSE)
    /\ UNCHANGED <<yielded, nextCalls>>

\* push_tail, Queue::offer
DoublyPushTail(x) ==
    /\ mode = "doubly"
    /\ listSize < MaxCells
    /\ \E a \in NewAddrs(cells) :
          DoublyCall("push_tail", doubly_push_tail(TheList, a, x), 0, FALSE)
    /\ UNCHANGED <<yielded, nextCalls>>

\* pop_head, Stack::pop, Queue::poll
DoublyPopHead ==
    /\ mode = "doubly"
    /\ LET res == doubly_Queue_poll(TheList)
       IN  DoublyCall("pop_head", res, res.ret, FALSE)
    /\ UNCHANGED <<yielded, nextCalls>>

DoublyPopTail ==
    /\ mode = "doubly"
    /\ LET res == doubly_pop_tail(TheList)
       IN  DoublyCall("pop_tail", res, res.ret, FALSE)
    /\ UNCHANGED <<yielded, nextCalls>>

DoublyInsert(index, x) ==
    /\ mode = "doubly"
    /\ \E a \in NewAddrs(cells) :
          LET res == doubly_insert(TheList, a, index, x)
          IN  DoublyCall("insert", res, 0, res.ret)
    /\ UNCHANGED <<yielded, nextCalls>>

DoublySet(index, x) ==
    /\ mode = "doubly"
    /\ LET res == doubly_set(TheList, index, x)
       IN  DoublyCall("set", res, 0, res.ret)
    /\ UNCHANGED <<yielded, nextCalls>>

DoublyClear ==
    /\ mode = "doubly"
    /\ DoublyCall("clear", doubly_clear(TheList), 0, FALSE)
    /\ UNCHANGED <<yielded, nextCalls>>

\* list.into_iter(): the list is moved into the iterator as it is
DoublyIntoIter ==
    /\ mode = "doubly"
    /\ mode' = "doublyInto"
    /\ yielded' = <<>>
    /\ nextCalls' = 0
    /\ lastOp' = "into_iter"
    /\ lastKey' = 0
    /\ lastItem' = 0
    /\ lastRet' = FALSE
    /\ NoList
    /\ NoTree
    /\ NoHeap

\* IntoIter::next
DoublyIntoNext ==
    /\ mode = "doublyInto"
    /\ nextCalls < MaxCells + MaxExtraNext
    /\ LET res == doubly_IntoIter_next(TheList)
       IN  /\ DoublyCall("into_next", res, res.ret, FALSE)
           /\ yielded' = IF res.ret # 0 THEN Append(yielded, res.ret) ELSE yielded
    /\ nextCalls' = nextCalls + 1

DoublyNext ==
    \/ \E x \in Items : DoublyPushHead(x)
    \/ \E x \in Items : DoublyPushTail(x)
    \/ DoublyPopHead
    \/ DoublyPopTail
    \/ \E index \in 0..MaxCells, x \in Items : DoublyInsert(index, x)
    \/ \E index \in 0..MaxCells, x \in Items : DoublySet(index, x)
    \/ DoublyClear
    \/ DoublyIntoIter
    \/ DoublyIntoNext

DoublySpec == DoublyInit /\ [][DoublyNext]_vars

\* ------------------------------------------------------------- heap runs
EmptyBag == [p \in Prios |-> 0]

RECURSIVE BagOf(_)
BagOf(items) ==
    IF items = <<>> THEN EmptyBag
    ELSE [BagOf(Tail(items)) EXCEPT ![Head(items)] = @ + 1]

HeapCall(op, key, h, item) ==
    /\ heap' = h.heap
    /\ heapSize' = h.size
    /\ lastOp' = op
    /\ lastKey' = key
    /\ lastItem' = item
    /\ lastRet' = FALSE
    /\ UNCHANGED cmp
    /\ NoTree
    /\ NoList

TheHeap == [heap |-> heap, size |-> heapSize]

\* BinaryHeap::min() or BinaryHeap::max()
HeapInit ==
    /\ Start("heap")
    /\ script = <<>>
    /\ scriptAt = 0
    /\ NoListYet
    /\ heap = heap_new.heap
    /\ heapSize = heap_new.size
    /\ cmp \in {"min", "max"}
    /\ offered = EmptyBag

HeapOffer(x) ==
    /\ mode = "heap"
    /\ heapSize < MaxHeap
    /\ HeapCall("offer", x, heap_offer(TheHeap, cmp, x), 0)
    /\ offered' = [offered EXCEPT ![x] = @ + 1]
    /\ UNCHANGED <<mode, yielded, nextCalls>>

HeapExtend(items) ==
    /\ mode = "heap"
    /\ heapSize + Len(items) <= MaxHeap
    /\ HeapCall("extend", 0, heap_extend(TheHeap, cmp, items), 0)
    /\ offered' = [p \in Prios |-> offered[p] + BagOf(items)[p]]
    /\ UNCHANGED <<mode, yielded, nextCalls>>

HeapPoll ==
    /\ mode = "heap"
    /\ LET res == heap_poll(TheHeap, cmp)
       IN  /\ HeapCall("poll", 0, res, res.ret)
           /\ offered' = IF res.ret # 0
                         THEN [offered EXCEPT ![res.ret] = @ - 1]
                         ELSE offered
    /\ UNCHANGED <<mode, yielded, nextCalls>>

HeapClear ==
    /\ mode = "heap"
    /\ HeapCall("clear", 0, heap_clear(TheHeap), 0)
    /\ offered' = EmptyBag
    /\ UNCHANGED <<mode, yielded, nextCalls>>

\* heap.into_iter(): the heap is moved into the iterator as it is
HeapIntoIter ==
    /\ mode = "heap"
    /\ mode' = "heapInto"
    /\ yielded' = <<>>
    /\ nextCalls' = 0
    /\ lastOp' = "into_iter"
    /\ lastKey' = 0
    /\ lastItem' = 0
    /\ lastRet' = FALSE
    /\ NoHeap
    /\ NoTree
    /\ NoList

\* IntoIter::next; offered stays what it was when the iterator was made
HeapIntoNext ==
    /\ mode = "heapInto"
    /\ nextCalls < Len(yielded) + heapSize + MaxExtraNext
    /\ LET res == heap_IntoIter_next(TheHeap, cmp)
       IN  /\ HeapCall("into_next", 0, res, res.ret)
           /\ yielded' = IF res.ret # 0 THEN Append(yielded, res.ret) ELSE yielded
    /\ nextCalls' = nextCalls + 1
    /\ UNCHANGED <<mode, offered>>

\* the iterator is dropped and another heap is built with BinaryHeap::from
HeapFrom(c, items) ==
    /\ mode = "heapInto"
    /\ mode' = "heap"
    /\ cmp' = c
    /\ heap' = heap_from(c, items).heap
    /\ heapSize' = heap_from(c, items).size
    /\ offered' = BagOf(items)
    /\ yielded' = <<>>
    /\ nextCalls' = 0
    /\ lastOp' = "from"
    /\ lastKey' = 0
    /\ lastItem' = 0
    /\ lastRet' = FALSE
    /\ NoTree
    /\ NoList

HeapNext ==
    \/ \E x \in Prios : HeapOffer(x)
    \/ \E items \in HeapInputs : HeapExtend(items)
    \/ HeapPoll
    \/ HeapClear
    \/ HeapIntoIter
    \/ HeapIntoNext
    \/ \E c \in {"min", "max"}, items \in HeapInputs : HeapFrom(c, items)

HeapSpec == HeapInit /\ [][HeapNext]_vars

\* ------------------------------------------------- what the claims speak of
\* the keys stored in a subtree
RECURSIVE KeysOf(_)
KeysOf(t) ==
    IF t = None THEN {}
    ELSE KeysOf(t.left) \cup {t.data} \cup KeysOf(t.right)

\* the number of nodes of a subtree
RECURSIVE Count(_)
Count(t) == IF t = None THEN 0 ELSE Count(t.left) + 1 + Count(t.right)

\* the in-order key sequence of a subtree
RECURSIVE InOrder(_)
InOrder(t) ==
    IF t = None THEN <<>>
    ELSE InOrder(t.left) \o <<t.data>> \o InOrder(t.right)

\* the height of a subtree computed from its shape, an absent subtree being 0
RECURSIVE TrueHeight(_)
TrueHeight(t) ==
    IF t = None THEN 0
    ELSE 1 + Max(TrueHeight(t.left), TrueHeight(t.right))

StrictlyIncreasing(s) == \A i \in 1..(Len(s) - 1) : s[i] < s[i + 1]

RECURSIVE Ordered(_)
Ordered(t) ==
    \/ t = None
    \/ /\ \A k \in KeysOf(t.left) : k < t.data
       /\ \A k \in KeysOf(t.right) : k > t.data
       /\ Ordered(t.left)
       /\ Ordered(t.right)

RECURSIVE Balanced(_)
Balanced(t) ==
    \/ t = None
    \/ /\ TrueHeight(t.left) - TrueHeight(t.right) \in {-1, 0, 1}
       /\ Balanced(t.left)
       /\ Balanced(t.right)

\* C1: after every insert and remove, in every node the keys of the left
\* subtree are smaller and the keys of the right subtree greater than the
\* node's key, no key is stored twice, and the in-order sequence is strictly
\* increasing.
OrderInvariant ==
    /\ Ordered(root)
    /\ Count(root) = Cardinality(KeysOf(root))
    /\ StrictlyIncreasing(InOrder(root))

\* a removal that changed the key at the root of a tree of five keys
OrderWitness ==
    /\ lastOp = "remove"
    /\ lastRet
    /\ prevSize = 5
    /\ root.data # prevRoot.data
    /\ root.left # None
    /\ root.right # None

\* C2: after every insert and remove, the true heights of the two subtrees of
\* every node differ by at most one.
BalanceInvariant == Balanced(root)

\* a removal after which the tree has another root node: a rotation at the root
BalanceWitness ==
    /\ lastOp = "remove"
    /\ lastRet
    /\ lastKey # prevRoot.data
    /\ root # None
    /\ root.data # prevRoot.data
    /\ TrueHeight(root) = 3

\* C3: size is the number of nodes reachable from root and the number of items
\* a full iter() traversal yields, and is_empty() holds exactly when size is 0.
SizeInvariant ==
    /\ size = Count(root)
    /\ size = Len(Iter_collect(iter(root)))
    /\ is_empty(root) <=> size = 0

\* an extend that added one key to a tree of two (the other item was present)
SizeWitness ==
    /\ lastOp = "extend"
    /\ prevSize = 2
    /\ size = 3

\* C4: contains(k) is true exactly for the keys of the abstract set, and a full
\* iter() traversal yields exactly the elements of the abstract set.
RefinesSet ==
    mode # "into" =>
        /\ \A k \in Keys : contains(root, k) <=> k \in absSet
        /\ Range(Iter_collect(iter(root))) = absSet
        /\ Len(Iter_collect(iter(root))) = Cardinality(absSet)

\* a removal of a key held by a node with two children
RefinesSetWitness ==
    /\ lastOp = "remove"
    /\ lastRet
    /\ prevRoot.data = lastKey
    /\ prevRoot.left # None
    /\ prevRoot.right # None
    /\ Cardinality(absSet) = 3

\* C5: insert returns true exactly when the key was absent and then size grows
\* by one; remove returns true exactly when the key was present and then size
\* shrinks by one, from a size that was positive; when either returns false
\* size is unchanged.
ReturnTellsCountChange ==
    /\ lastOp = "insert" =>
          /\ lastRet <=> lastKey \notin KeysOf(prevRoot)
          /\ size = IF lastRet THEN prevSize + 1 ELSE prevSize
    /\ lastOp = "remove" =>
          /\ lastRet <=> lastKey \in KeysOf(prevRoot)
          /\ lastRet => prevSize > 0
          /\ size = IF lastRet THEN prevSize - 1 ELSE prevSize
    /\ size >= 0

\* a removal that returned true and took the last key out of the tree
ReturnWitness ==
    /\ lastOp = "remove"
    /\ lastRet
    /\ prevSize = 1
    /\ size = 0

\* C6: inserting a key that is present returns false and leaves shape, keys,
\* cached heights, size and traversal output as they were.
DuplicateInsertIsNoOp ==
    (lastOp = "insert" /\ lastKey \in KeysOf(prevRoot)) =>
        /\ ~lastRet
        /\ root = prevRoot
        /\ size = prevSize
        /\ Iter_collect(iter(root)) = Iter_collect(iter(prevRoot))

\* a duplicate insert of a key stored two levels below the root
DuplicateInsertWitness ==
    /\ lastOp = "insert"
    /\ prevRoot # None
    /\ prevRoot.left # None
    /\ prevRoot.left.right # None
    /\ prevRoot.left.right.data = lastKey

\* C7: removing a key that is not present returns false and leaves shape,
\* keys, cached heights and size as they were, also on the empty tree.
AbsentRemoveIsNoOp ==
    (lastOp = "remove" /\ lastKey \notin KeysOf(prevRoot)) =>
        /\ ~lastRet
        /\ root = prevRoot
        /\ size = prevSize

\* a removal of an absent key from a tree whose root leans to the left
AbsentRemoveWitness ==
    /\ lastOp = "remove"
    /\ ~lastRet
    /\ prevRoot # None
    /\ balance_factor(prevRoot) = 1
    /\ prevSize = 4

\* C8: each item into_iter() yields is greater than the item yielded before.
IntoIterAscending ==
    mode = "into" => StrictlyIncreasing(yielded)

\* C9: into_iter() run to exhaustion yields every key of the tree once.
IntoIterComplete ==
    (mode = "into" /\ intoStack = <<>>) =>
        /\ Len(yielded) = prevSize
        /\ Range(yielded) = KeysOf(prevRoot)

\* C10: iter() yields the keys in strictly increasing order, one per call of
\* next(); after size() calls the stack is empty, every key has been yielded
\* once and every later call returns None; the tree is not changed.
IterAscendingAndFinite ==
    mode = "iter" =>
        /\ StrictlyIncreasing(yielded)
        /\ nextCalls <= size => Len(yielded) = nextCalls
        /\ nextCalls >= size =>
              /\ ~has_next(iterStack)
              /\ yielded = InOrder(root)
        /\ nextCalls > size => lastItem = 0
        /\ (nextCalls > 0 /\ nextCalls <= size) => lastItem = yielded[Len(yielded)]
        /\ root = prevRoot
        /\ size = prevSize

\* a traversal of a tree of five keys that was called once more after its end
IterWitness ==
    /\ mode = "iter"
    /\ size = 5
    /\ nextCalls = 6
    /\ Len(yielded) = 5

\* C11: inserting distinct keys in any order into a new tree and then removing
\* all of them in any order leaves size 0, is_empty() true and root absent,
\* and every one of the calls returns true.
RoundTripToEmpty ==
    /\ lastOp \in {"insert", "remove"} => lastRet
    /\ (mode = "drain" /\ absSet = {}) =>
          /\ size = 0
          /\ is_empty(root)
          /\ root = None

\* the last key of a filled tree has been removed again
RoundTripWitness ==
    /\ mode = "drain"
    /\ absSet = {}
    /\ lastOp = "remove"
    /\ prevSize = 1
    /\ prevRoot # None

\* the keys a query is asked for on the tree t: every key of the domain, 0,
\* and the neighbours of the keys stored
QueryKeys(t) ==
    Keys \cup {0} \cup {k + 1 : k \in Keys \cup KeysOf(t)} \cup {k - 1 : k \in KeysOf(t)}

Least(S) == CHOOSE k \in S : \A j \in S : k <= j

Greatest(S) == CHOOSE k \in S : \A j \in S : k >= j

\* C12: get_floor(x) is the largest key <= x, and None (0) exactly when the
\* tree has no key <= x; on {1,3,7,9} it gives 3 for 5, 9 for 9, None for 0.
FloorIsGreatestBelow ==
    /\ \A x \in QueryKeys(root) :
          LET below == {k \in KeysOf(root) : k <= x}
          IN  get_floor(root, x) = IF below = {} THEN 0 ELSE Greatest(below)
    /\ KeysOf(root) = {1, 3, 7, 9} =>
          /\ get_floor(root, 5) = 3
          /\ get_floor(root, 9) = 9
          /\ get_floor(root, 0) = 0

\* the tree {1,3,7,9} built with 7 at its root, so that the floor of 5 is found
\* after turning left at the root
FloorWitness ==
    /\ KeysOf(root) = {1, 3, 7, 9}
    /\ root.data = 7
    /\ get_floor(root, 5) = 3

\* C13: get_ceil(x) is the smallest key >= x, and None (0) exactly when the
\* tree has no key >= x; on {1,3,7,9} it gives 7 for 5, 1 for 1, None for 10.
CeilIsLeastAbove ==
    /\ \A x \in QueryKeys(root) :
          LET above == {k \in KeysOf(root) : k >= x}
          IN  get_ceil(root, x) = IF above = {} THEN 0 ELSE Least(above)
    /\ KeysOf(root) = {1, 3, 7, 9} =>
          /\ get_ceil(root, 5) = 7
          /\ get_ceil(root, 1) = 1
          /\ get_ceil(root, 10) = 0

\* the tree {1,3,7,9} built with 3 at its root, so that the ceiling of 5 is
\* found after turning right at the root
CeilWitness ==
    /\ KeysOf(root) = {1, 3, 7, 9}
    /\ root.data = 3
    /\ get_ceil(root, 5) = 7

\* C14: get_min() / get_max() return the smallest / largest key of the tree,
\* and each returns None (0) exactly when the tree is empty.
MinMaxAreExtremes ==
    /\ get_min(root) = IF KeysOf(root) = {} THEN 0 ELSE Least(KeysOf(root))
    /\ get_max(root) = IF KeysOf(root) = {} THEN 0 ELSE Greatest(KeysOf(root))
    /\ get_min(root) = 0 <=> is_empty(root)
    /\ get_max(root) = 0 <=> is_empty(root)

\* the smallest key was removed and the new extremes lie below the root
MinMaxWitness ==
    /\ lastOp = "remove"
    /\ lastRet
    /\ lastKey = get_min(prevRoot)
    /\ size = 4
    /\ get_min(root) \notin {0, root.data, lastKey}
    /\ get_max(root) \notin {0, root.data}

\* a call that panicked left the node Panic in the subtree it returned
RECURSIVE Panicked(_)
Panicked(t) ==
    /\ t # None
    /\ \/ "panic" \in DOMAIN t
       \/ Panicked(t.left)
       \/ Panicked(t.right)

\* C15: no operation panics: no unwrap in a rotation (the inner rotation of a
\* double rotation included) or after min_value meets None, and size is only
\* decremented when it is positive.
NoPanic ==
    /\ ~Panicked(root)
    /\ ~Panicked(cloneRoot)
    /\ (lastOp = "remove" /\ lastRet) => prevSize > 0
    /\ size >= 0 /\ cloneSize >= 0

\* a removal from the right of the root answered by a double rotation: the
\* left child of the root leaned to the right and its right child is the new
\* root
NoPanicWitness ==
    /\ lastOp = "remove"
    /\ lastRet
    /\ prevRoot # None
    /\ prevRoot.left # None
    /\ prevRoot.right # None
    /\ lastKey = prevRoot.right.data
    /\ balance_factor(prevRoot) = 1
    /\ balance_factor(prevRoot.left) = -1
    /\ root.data = prevRoot.left.right.data

RECURSIVE HeightsCached(_)
HeightsCached(t) ==
    \/ t = None
    \/ /\ t.height = 1 + Max(height(t.left), height(t.right))
       /\ HeightsCached(t.left)
       /\ HeightsCached(t.right)

\* C16: after every insert and remove, and in every clone, the height stored
\* in each node is 1 + max of the heights of its subtrees (absent = 0): it is
\* the true height of the node's subtree, 1 for a leaf.
CachedHeightInvariant ==
    /\ HeightsCached(root)
    /\ height(root) = TrueHeight(root)
    /\ HeightsCached(cloneRoot)
    /\ height(cloneRoot) = TrueHeight(cloneRoot)

\* a clone of a tree of height 3 whose right subtree is the taller one
CachedHeightWitness ==
    /\ lastOp = "clone"
    /\ cloneRoot # None
    /\ cloneRoot.height = 3
    /\ cloneRoot.left # None
    /\ cloneRoot.left.height = 1
    /\ cloneRoot.right # None
    /\ cloneRoot.right.height = 2

\* the least number of nodes of a balanced tree of height h
RECURSIVE MinNodes(_)
MinNodes(h) ==
    IF h = 0 THEN 0
    ELSE IF h = 1 THEN 1
    ELSE MinNodes(h - 1) + MinNodes(h - 2) + 1

\* C17: a tree of root height h holds at least N(h) keys, N(0) = 0, N(1) = 1,
\* N(h) = N(h-1) + N(h-2) + 1; the tree built from 10, 9, ..., 1 has height at
\* most 4.
HeightLogarithmic ==
    /\ Count(root) >= MinNodes(height(root))
    /\ Count(root) >= MinNodes(TrueHeight(root))
    /\ (script = DescendingScenario /\ scriptAt = Len(script)) =>
          /\ Count(root) = 10
          /\ TrueHeight(root) <= 4

\* the ten keys 10, 9, ..., 1 have been inserted one by one
HeightWitness ==
    /\ script = DescendingScenario
    /\ scriptAt = 10
    /\ lastOp = "insert"
    /\ TrueHeight(root) = 4

\* the tree got by inserting the items one after the other into a new tree
RECURSIVE OneByOne(_)
OneByOne(items) ==
    IF items = <<>> THEN new
    ELSE LET before == OneByOne(SubSeq(items, 1, Len(items) - 1))
             t      == insert(before.root, before.size, items[Len(items)])
         IN  [root |-> t.root, size |-> t.size]

\* C19: from / extend / from_iter build the tree of the distinct elements of
\* the input: duplicates are dropped, size counts the distinct elements, and
\* the tree is the one got by inserting the elements one by one in order.
FromKeepsDistinct ==
    /\ lastOp \in {"from", "extend"} =>
          /\ KeysOf(root) = absSet
          /\ size = Cardinality(absSet)
    /\ (mode = "script" /\ lastOp = "from") =>
          /\ KeysOf(root) = Range(script)
          /\ size = Cardinality(Range(script))
          /\ root = OneByOne(script).root
          /\ size = OneByOne(script).size
          /\ from_iter(script) = [root |-> root, size |-> size]

\* from() was given three items, two of them equal
FromWitness ==
    /\ mode = "script"
    /\ lastOp = "from"
    /\ Len(script) = 3
    /\ size = 2

\* insertion into a search tree without any rotation, heights recomputed
RECURSIVE PlainInsert(_, _)
PlainInsert(t, k) ==
    IF t = None THEN [data |-> k, left |-> None, right |-> None, height |-> 1]
    ELSE IF k = t.data THEN t
    ELSE LET l == IF k < t.data THEN PlainInsert(t.left, k) ELSE t.left
             r == IF k > t.data THEN PlainInsert(t.right, k) ELSE t.right
         IN  [data |-> t.data, left |-> l, right |-> r,
              height |-> 1 + Max(height(l), height(r))]

\* the last insert performed a rotation
Rotated == lastOp = "insert" /\ root # PlainInsert(prevRoot, lastKey)

\* C20 as claimed: in the run inserting 5,3,8,1,4,7,9 a rotation is performed,
\* set off by the imbalance that arises when 1 is inserted.
RotationAfterInsertingOne ==
    (script = MixedScenario /\ scriptAt = 4 /\ lastOp = "insert") => Rotated

\* C20 as amended: in the run inserting 5,3,8,1,4,7,9 no insert performs a
\* rotation: each one, that of 1 included, only adds a leaf and leaves every
\* node balanced; the run ends with the in-order sequence 1,3,4,5,7,8,9 and a
\* root balance factor of 0.
NoRotationInMixedScenario ==
    (script = MixedScenario /\ lastOp = "insert") =>
        /\ ~Rotated
        /\ Balanced(PlainInsert(prevRoot, lastKey))
        /\ scriptAt = Len(script) =>
              /\ InOrder(root) = <<1, 3, 4, 5, 7, 8, 9>>
              /\ balance_factor(root) = 0

\* all seven keys of the run have been inserted
MixedScenarioWitness ==
    /\ script = MixedScenario
    /\ scriptAt = 7
    /\ lastOp = "insert"
    /\ lastKey = 9
    /\ size = 7

\* C18: clone() gives a tree of the same shape, keys, cached heights and size,
\* and calls of insert / remove / clear on the clone leave the original as it
\* was when it was cloned, and the other way round.
CloneIsIndependentCopy ==
    /\ lastOp = "clone" =>
          /\ cloneRoot = root
          /\ cloneSize = size
          /\ InOrder(cloneRoot) = InOrder(root)
    /\ mode = "cloneLive" =>
          /\ root = prevRoot
          /\ size = prevSize
          /\ Iter_collect(iter(root)) = InOrder(prevRoot)
    /\ mode = "origLive" =>
          /\ cloneRoot = prevRoot
          /\ cloneSize = prevSize
          /\ Iter_collect(iter(cloneRoot)) = InOrder(prevRoot)
    /\ mode \in {"cloneLive", "origLive"} =>
          /\ cloneSize = Count(cloneRoot)
          /\ size = Count(root)

\* the clone of the tree built from 5,3,8,1,4,7,9 has been emptied
CloneWitness ==
    /\ mode = "cloneLive"
    /\ prevSize = 7
    /\ cloneRoot = None
    /\ lastOp = "remove"
    /\ root # None

\* C21: clear() leaves the empty tree: the root is absent, size() is 0,
\* is_empty() holds and iter() yields nothing, and the handle is the one new()
\* makes, so that every later insert, remove, extend and query gives what it
\* gives on a tree freshly created.
ClearResetsToNew ==
    lastOp = "clear" =>
        /\ root = None
        /\ size = 0
        /\ is_empty(root)
        /\ Iter_collect(iter(root)) = <<>>
        /\ [root |-> root, size |-> size] = new
        /\ \A items \in ExtendInputs :
              extend(root, size, items) = from(items)
        /\ \A k \in Keys :
              /\ insert(root, size, k) = insert(new.root, new.size, k)
              /\ remove(root, size, k) = remove(new.root, new.size, k)
              /\ contains(root, k) = contains(new.root, k)

\* a tree of at least three keys has just been cleared
ClearWitness ==
    /\ lastOp = "clear"
    /\ prevSize >= 3
    /\ Count(prevRoot) >= 3
    /\ root = None

\* every subtree of a tree
RECURSIVE Subtrees(_)
Subtrees(t) ==
    IF t = None THEN {}
    ELSE {t} \cup Subtrees(t.left) \cup Subtrees(t.right)

\* the subtrees the rotations are tried on: those of the tree, and those of
\* the tree the last insert would have left without rotating, which hold the
\* nodes of balance 2 and -2 that insert_rec hands to the rotations
RotationInputs ==
    Subtrees(root) \cup
    (IF lastOp = "insert" THEN Subtrees(PlainInsert(prevRoot, lastKey)) ELSE {})

LeftRotationCorrect(t) ==
    LET r == left_rotate(t)
    IN  /\ InOrder(r) = InOrder(t)
        /\ KeysOf(r) = KeysOf(t)
        /\ r.data = t.right.data
        /\ r.left # None
        /\ r.left.data = t.data
        /\ r.left.left = t.left
        /\ r.left.right = t.right.left
        /\ r.right = t.right.right
        /\ r.left.height = 1 + Max(height(t.left), height(t.right.left))
        /\ r.height = 1 + Max(r.left.height, height(t.right.right))
        /\ r.left.height = TrueHeight(r.left)
        /\ r.height = TrueHeight(r)

RightRotationCorrect(t) ==
    LET r == right_rotate(t)
    IN  /\ InOrder(r) = InOrder(t)
        /\ KeysOf(r) = KeysOf(t)
        /\ r.data = t.left.data
        /\ r.right # None
        /\ r.right.data = t.data
        /\ r.right.right = t.right
        /\ r.right.left = t.left.right
        /\ r.left = t.left.left
        /\ r.right.height = 1 + Max(height(t.left.right), height(t.right))
        /\ r.height = 1 + Max(height(t.left.left), r.right.height)
        /\ r.right.height = TrueHeight(r.right)
        /\ r.height = TrueHeight(r)

\* C22: a rotation keeps the in-order key sequence and the key set; the child
\* on the far side becomes the subtree root and the old root its child on the
\* near side, the three subtrees hanging below keep their content, and the
\* cached heights of the demoted node and then of the new root are
\* recomputed, so that both are the true heights.
RotationsPreserveOrder ==
    \A t \in RotationInputs :
        /\ t.right # None => LeftRotationCorrect(t)
        /\ t.left # None => RightRotationCorrect(t)

\* the last insert rotated twice at the root: the inserted key, which went
\* between the root and its child, is the new root
RotationWitness ==
    /\ Rotated
    /\ root.data = lastKey
    /\ prevRoot # None
    /\ prevRoot.data # lastKey
    /\ \E t \in RotationInputs : balance_factor(t) \in {-2, 2}

\* The nodes at which insert_rec(ptr, data) finds |balance| > 1, the deepest
\* first.  Each comes as <<node, result>>: the node as it is when the balance
\* is taken (the recursive call done and the height updated, no rotation
\* yet), and the subtree insert_rec returns in its place.
RECURSIVE Imbalances(_, _)
Imbalances(ptr, data) ==
    IF ptr = None THEN <<>>
    ELSE IF data = ptr.data THEN <<>>
    ELSE LET goLeft == data < ptr.data
             child  == IF goLeft THEN ptr.left ELSE ptr.right
             rec    == insert_rec(child, data)
             node   == update_height(IF goLeft THEN [ptr EXCEPT !.left = rec[1]]
                                               ELSE [ptr EXCEPT !.right = rec[1]])
         IN  Imbalances(child, data) \o
             (IF balance_factor(node) > 1 \/ balance_factor(node) < -1
              THEN <<<<node, insert_rec(ptr, data)[1]>>>>
              ELSE <<>>)

\* C23: where insert_rec finds |balance| > 1, the inserted key is not the key
\* of the heavy child, the heavy child is not of balance 0, and the key is
\* below the left child's key exactly if the left child is left-heavy (above
\* the right child's key exactly if the right child is right-heavy); the
\* subtree insert_rec returns is the one the rule by the sign of the child's
\* balance, that of delete_rec, gives.
KeyChoiceIsBalanceChoice ==
    lastOp = "insert" =>
        LET sites == Imbalances(prevRoot, lastKey)
        IN  \A i \in 1..Len(sites) :
                LET node == sites[i][1]
                    b    == balance_factor(node)
                IN  /\ b > 1 =>
                          /\ node.left # None
                          /\ lastKey # node.left.data
                          /\ balance_factor(node.left) # 0
                          /\ (lastKey < node.left.data) <=>
                                 (balance_factor(node.left) > 0)
                    /\ b < -1 =>
                          /\ node.right # None
                          /\ lastKey # node.right.data
                          /\ balance_factor(node.right) # 0
                          /\ (lastKey > node.right.data) <=>
                                 (balance_factor(node.right) < 0)
                    /\ sites[i][2] = delete_rebalance(node, TRUE)[1]

\* an insert met a left-heavy node whose left child was right-heavy, below
\* the root
KeyChoiceWitness ==
    /\ lastOp = "insert"
    /\ \E i \in 1..Len(Imbalances(prevRoot, lastKey)) :
          LET node == Imbalances(prevRoot, lastKey)[i][1]
          IN  /\ balance_factor(node) = 2
              /\ balance_factor(node.left) = -1
              /\ node.data # prevRoot.data

\* the node of a search tree that holds key k (None if there is none)
RECURSIVE Find(_, _)
Find(t, k) ==
    IF t = None THEN None
    ELSE IF k < t.data THEN Find(t.left, k)
    ELSE IF k > t.data THEN Find(t.right, k)
    ELSE t

\* C24: when remove(k) finds k in a node with two children, the node gets the
\* least key of its right subtree, the next key of the tree after k; removing
\* that key from the right subtree ends at a node without left child and
\* reports TRUE; remove returns TRUE, one node less is left and the key set
\* has lost k and nothing else.
TwoChildDeletion ==
    LET n == Find(prevRoot, lastKey)
    IN  (lastOp = "remove" /\ n # None /\ n.left # None /\ n.right # None) =>
            LET succ  == min_value(n.right).data
                inner == delete_rec(n.right, succ)
            IN  /\ succ = Least(KeysOf(n.right))
                /\ succ = Least({k \in KeysOf(prevRoot) : k > lastKey})
                /\ Find(n.right, succ).left = None
                /\ inner[2] = TRUE
                /\ Count(inner[1]) = Count(n.right) - 1
                /\ delete_rec(n, lastKey) =
                       delete_rebalance([n EXCEPT !.data = succ,
                                                  !.right = inner[1]], TRUE)
                /\ lastRet = TRUE
                /\ Count(root) = Count(prevRoot) - 1
                /\ size = prevSize - 1
                /\ KeysOf(root) = KeysOf(prevRoot) \ {lastKey}
                /\ InOrder(root) = SelectSeq(InOrder(prevRoot),
                                             LAMBDA k : k # lastKey)

\* the key removed was in a node with two children whose successor was not
\* its right child but further down to the left
TwoChildWitness ==
    /\ lastOp = "remove"
    /\ lastRet
    /\ LET n == Find(prevRoot, lastKey)
       IN  /\ n # None
           /\ n.left # None
           /\ n.right # None
           /\ n.right.left # None
           /\ min_value(n.right).data # n.right.data

\* C25: an insert rebalances at no more than one node of its search path: at
\* most one node is found with |balance| > 1, there the one single or double
\* rotation is made, and above it no node is found with |balance| > 1; the
\* tree returned is balanced.
OneRebalancePerInsert ==
    lastOp = "insert" =>
        LET sites == Imbalances(prevRoot, lastKey)
        IN  /\ Len(sites) <= 1
            /\ Len(sites) = 0 => ~Rotated
            /\ Len(sites) = 1 =>
                  /\ Rotated
                  /\ sites[1][2] \in
                        {right_rotate(sites[1][1]),
                         left_rotate(sites[1][1]),
                         right_rotate([sites[1][1] EXCEPT
                             !.left = left_rotate(sites[1][1].left)]),
                         left_rotate([sites[1][1] EXCEPT
                             !.right = right_rotate(sites[1][1].right)])}
            /\ Balanced(root)

\* an insert rotated at a node that has two ancestors
OneRebalanceWitness ==
    /\ lastOp = "insert"
    /\ Len(Imbalances(prevRoot, lastKey)) = 1
    /\ LET node == Imbalances(prevRoot, lastKey)[1][1]
       IN  /\ prevRoot.data # node.data
           /\ prevRoot.left # None => prevRoot.left.data # node.data
           /\ prevRoot.right # None => prevRoot.right.data # node.data
           /\ Find(prevRoot, node.data) # None

\* the addresses of the nodes of the list: those met from head along next
ListNodes ==
    Discover([a \in Addrs |-> <<cells[a].next>>], <<listHead>>, <<>>)

\* the data of the list from head on
ListItems == [i \in 1..Len(ListNodes) |-> cells[ListNodes[i]].data]

\* C26: on a doubly-linked list with at least one element, pop_head (which
\* Stack::pop, Queue::poll and IntoIter::next call) returns the first element
\* and pop_tail the last, and len() goes down by one, also when the element is
\* the only one; the list is then empty, head and tail both absent.
PopTakesOneElement ==
    [][/\ (lastOp' \in {"pop_head", "into_next"} /\ Len(ListNodes) >= 1) =>
              /\ lastItem' = ListItems[1]
              /\ listSize' = listSize - 1
              /\ Len(ListNodes) = 1 => (listHead' = 0 /\ listTail' = 0)
       /\ (lastOp' = "pop_tail" /\ Len(ListNodes) >= 1) =>
              /\ lastItem' = ListItems[Len(ListNodes)]
              /\ listSize' = listSize - 1
              /\ Len(ListNodes) = 1 => (listHead' = 0 /\ listTail' = 0)
      ]_vars

\* len() is the number of nodes met from head, and tail is the last of them,
\* absent if there is none
LengthAndTail ==
    /\ listSize = Len(ListNodes)
    /\ listTail = IF ListNodes = <<>> THEN 0 ELSE ListNodes[Len(ListNodes)]

\* C27: after every push_head, push_tail, pop, insert, set and clear, len()
\* is the number of nodes met from head and tail is the last of them; an
\* insert that returns Some(()) adds one element, and a push adds one element
\* to those there are and loses none.
ListLengthAndInsert ==
    [][mode' \in {"singly", "doubly"} =>
          /\ LengthAndTail'
          /\ (lastOp' = "insert" /\ lastRet') =>
                 Len(ListNodes') = Len(ListNodes) + 1
          /\ lastOp' = "push_head" =>
                 Tail(ListItems') = ListItems
          /\ lastOp' = "push_tail" =>
                 SubSeq(ListItems', 1, Len(ListItems)) = ListItems
      ]_vars

\* C28: Queue::tail() on a singly-linked list that is not empty returns the
\* data of the last node and changes nothing: every node stays allocated, and
\* the cells, head, tail and len are as before; no later call then meets a
\* node that was freed.
TailIsPureObservation ==
    [][/\ (lastOp' = "tail" /\ listTail # 0) =>
              /\ lastItem' = cells[listTail].data
              /\ cells' = cells
              /\ listHead' = listHead
              /\ listTail' = listTail
              /\ listSize' = listSize
       /\ mode' \notin {"undefined", "aborted"}
      ]_vars

\* how often p is among the elements of s
Occurrences(s, p) == Cardinality({i \in DOMAIN s : s[i] = p})

\* the slots 1..size of the heap
HeapItems == [i \in 1..heapSize |-> heap[i]]

\* C29: size is heap.len() - 1, slot 0 is None and the slots 1..size are
\* filled; no element is less under cmp than the one at half its index; the
\* heap holds what was offered and not polled; poll returns None only from
\* the empty heap and otherwise takes one element that none left is less
\* than; what into_iter yields is ordered under cmp, and it is all the heap
\* held once next returns None.
HeapOrderInvariant ==
    mode \in {"heap", "heapInto"} =>
        /\ heapSize = Vec_len(heap) - 1
        /\ DOMAIN heap = 0..heapSize
        /\ heap[0] = 0
        /\ \A i \in 1..heapSize : heap[i] \in Prios
        /\ \A i \in 2..heapSize : ~cmp_is_lt(cmp, heap[i], heap[parent(i)])
        /\ \A p \in Prios :
              Occurrences(HeapItems, p) + Occurrences(yielded, p) = offered[p]
        /\ lastOp \in {"poll", "into_next"} =>
              /\ lastItem = 0 => heapSize = 0
              /\ lastItem # 0 =>
                    \A i \in 1..heapSize : cmp_is_le(cmp, lastItem, heap[i])
        /\ mode = "heapInto" =>
              /\ \A i, j \in 1..Len(yielded) :
                    i < j => cmp_is_le(cmp, yielded[i], yielded[j])
              /\ \A i \in 1..Len(yielded), j \in 1..heapSize :
                    cmp_is_le(cmp, yielded[i], heap[j])
              /\ (lastOp = "into_next" /\ lastItem = 0) =>
                    \A p \in Prios : Occurrences(yielded, p) = offered[p]

\* a max-heap of four elements was polled: the last slot went to the root and
\* sank below the greater child, which is the right one
HeapWitness ==
    /\ mode = "heap"
    /\ cmp = "max"
    /\ lastOp = "poll"
    /\ lastItem = 3
    /\ heapSize = 3
    /\ heap[1] = 2
    /\ heap[3] = 1

====
